---- MODULE Spec2Model ----
(***************************************************************************)
(* Model of the Solana rug tracker crawl engine.                           *)
(*                                                                         *)
(* The repository holds three variants of the same program:               *)
(*   src/index.js          backfill of the seeds, then WebSocket          *)
(*                         subscriptions on every known address (DEPTH),  *)
(*                         RPC calls wrapped in withRetry                 *)
(*   src/unnamed/part_000  breadth-first backfill over BACKFILL_QUEUE     *)
(*                         (backfillBFS), then subscribe on the seeds     *)
(*   src/unnamed/part_001  subscriptions first, then a look-back backfill *)
(*                                                                         *)
(* Specifications:                                                         *)
(*   Spec          src/index.js: boot, backfillAllFrom, onLogs             *)
(*   SpecRetry     withRetry alone, for every configured MAX_RETRIES       *)
(*   SpecTopN      one classification of one transaction                   *)
(*   SpecBFS       src/unnamed/part_000: backfillBFS, then subscribe       *)
(*   SpecLookback  src/unnamed/part_001: subscribe, then backfillAddress   *)
(*   SpecV2        the second copy of the program in src/index.js          *)
(*   SpecLimit     Spec with BACKFILL_LIMIT > 0                            *)
(*   SpecFair      boot of src/index.js under weak fairness                *)
(*   SpecBFSFair   SpecBFS under weak fairness                             *)
(*   SpecLand      Spec with a reliable RPC node and a transaction that    *)
(*                 lands during the backfill                               *)
(***************************************************************************)
EXTENDS Integers, Sequences, FiniteSets, TLC

VARIABLES
  \* ---- configuration (process.env), fixed after start-up
  MAX_RETRIES,     \* index.js:27
  RETRY_BASE_MS,   \* index.js:28
  \* ---- one activation of withRetry (SpecRetry)
  rw,              \* [st, attempt, backoff, msg]: the activation's locals
  calls,           \* number of times fn() was invoked
  delays,          \* the sleeps of the activation, in order
  hist,            \* the outcomes of fn(), in order
  result,          \* what the activation returned / threw
  \* ---- configuration, continued
  MAX_DEPTH,       \* index.js:17
  TOP_CHILDREN,    \* index.js:18
  CEX,             \* index.js:31
  \* ---- one classification of one transaction (SpecTopN)
  cIn,             \* [from, depth, instrs]: the arguments and the fetched tx
  cOut,            \* [calls, warned]: addAddress calls made, in order
  \* ---- configuration, continued
  SEEDS,           \* index.js:8
  PAGE_SIZE,       \* index.js:24
  BACKFILL_LIMIT,  \* index.js:21
  \* ---- the crawler's state (index.js:44-46)
  WATCH,           \* addr -> depth of the subscription ({depth, subId})
  DEPTH,           \* addr -> smallest depth met
  SEEN,            \* signatures handed to handleSignature
  \* ---- the RPC node's side
  subCount,        \* addr -> number of onLogs subscriptions opened for it
  notifs,          \* number of log notifications delivered so far
  \* ---- control state
  boot,            \* the boot coroutine: [pc, seedIdx, before, batch, count,
                   \*   handed, sig, depth, rw]; handed counts the signatures
                   \*   the running backfillAllFrom passed to handleSignature
  handlers,        \* the onLogs activations awaiting getParsedTx
  \* ---- what the run did (console output and call counts)
  entered,         \* sig -> times handleSignature was entered
  expanded,        \* sig -> times the expansion (lines 119-170) ran
  warned,          \* destinations of a "Max depth:" warning
  liveFound,       \* destinations a live classification passed to addAddress
  via,             \* sig -> the callers ("backfill", "live") that entered
                   \*        handleSignature with it
  dropped,         \* the <<addr, sig>> onLogs returned on at line 109
                   \* (signature already seen)
  observed,        \* the <<addr, depth>> addAddress went past line 92 with
  \* ---- configuration of the other two variants
  RPCS,            \* part_000:8
  LOOKBACK_MIN,    \* part_001:11
  \* ---- the breadth-first crawler's state (part_000:9, 22-26)
  RPC_INDEX,
  BACKFILL_QUEUE,  \* sequence of [addr, depth]
  ENQUEUED,
  SUBSCRIBED,
  IN_BACKFILL,
  bfs,             \* the main coroutine of part_000: [pc, lastSize, addr,
                   \*   depth, sigs, todo, before, page]; addr and depth are
                   \*   the queue entry taken at line 122
  \* ---- what the breadth-first run did
  completions,     \* times line 137-138 ran
  trail,           \* what backfillBFS did since it last took an address off
                   \* the queue: "empty" (line 127 saw the queue empty),
                   \* "wait" (the sleep of line 133 is over)
  subscribeCalls,  \* addr -> times subscribe() went past line 163 for it
  queueLog,        \* [pushed, met]: addr -> times it was pushed onto
                   \* BACKFILL_QUEUE, addr -> times lines 112 and 150 met it
                   \* as an address to enqueue
  \* ---- the ledger of the RPC node
  landed           \* the signatures that landed on the ledger after the
                   \* program started, newest first

cfgVars   == <<MAX_RETRIES, RETRY_BASE_MS, MAX_DEPTH, TOP_CHILDREN, CEX,
              SEEDS, PAGE_SIZE, BACKFILL_LIMIT, RPCS, LOOKBACK_MIN>>
retryVars == <<rw, calls, delays, hist, result>>
topVars   == <<cIn, cOut>>
regVars   == <<WATCH, DEPTH, SEEN, subCount>>
logVars   == <<entered, expanded, warned, liveFound, via, dropped, observed>>
crawlVars == <<regVars, notifs, boot, handlers, logVars>>
bfsVars   == <<RPC_INDEX, BACKFILL_QUEUE, ENQUEUED, SUBSCRIBED, IN_BACKFILL,
              bfs, completions, trail, subscribeCalls, queueLog>>
vars      == <<cfgVars, retryVars, topVars, crawlVars, bfsVars, landed>>

\* what each specification leaves alone
notRetry == <<topVars, crawlVars, bfsVars, landed>>
notTop   == <<retryVars, crawlVars, bfsVars, landed>>
notCrawl == <<retryVars, topVars, bfsVars, landed>>
notBFS   == <<retryVars, topVars, crawlVars, landed>>

(***************************************************************************)
(* Bounds of the model                                                     *)
(***************************************************************************)
MaxRetriesCfg == 4      \* MAX_RETRIES is drawn from 0..MaxRetriesCfg
MaxInstrs     == 3      \* instructions of the transaction of SpecTopN
MaxTopCfg     == 2      \* TOP_CHILDREN is drawn from 0..MaxTopCfg
MaxNotifs     == 2      \* log notifications delivered in one run of Spec

RetryBaseChoices == {500, 100}
ErrMsgs   == {"timeout", "429"}      \* e.message of a failing RPC call
RetVals   == {"v1", "v2"}            \* values a successful fn() resolves to
None      == "none"

\* the groups of variables a specification does not use stay at these values
NoResult == [kind |-> "none", val |-> None, attempts |-> 0, msg |-> None]
NoInput  == [from |-> None, depth |-> 0, instrs |-> <<>>]
NoOutput == [done |-> FALSE, calls |-> <<>>, warned |-> <<>>]
IdleRetry ==
  /\ rw = [st |-> "idle", attempt |-> 0, backoff |-> 0, msg |-> None]
  /\ calls = 0 /\ delays = <<>> /\ hist = <<>> /\ result = NoResult
IdleTop == cIn = NoInput /\ cOut = NoOutput
NoFn == [x \in {} |-> 0]
IdleMain == [pc |-> "idle", seedIdx |-> 0, before |-> None, batch |-> <<>>,
             count |-> 0, handed |-> 0, sig |-> None, depth |-> 0,
             rw |-> [st |-> "idle", attempt |-> 0, backoff |-> 0, msg |-> None]]
IdleCrawl ==
  /\ WATCH = NoFn /\ DEPTH = NoFn /\ SEEN = {} /\ subCount = NoFn
  /\ notifs = 0 /\ boot = IdleMain /\ handlers = {}
  /\ entered = NoFn /\ expanded = NoFn /\ warned = {} /\ liveFound = {}
  /\ via = NoFn /\ dropped = {} /\ observed = {}
DefaultCrawlCfg == SEEDS = <<>> /\ PAGE_SIZE = 25 /\ BACKFILL_LIMIT = 0
DefaultOtherCfg == RPCS = <<>> /\ LOOKBACK_MIN = 60
IdleBfsMain == [pc |-> "idle", lastSize |-> -1, addr |-> None, depth |-> 0,
                sigs |-> <<>>, todo |-> <<>>, before |-> None, page |-> 0]
NoQueueLog == [pushed |-> NoFn, met |-> NoFn]
IdleBFS ==
  /\ RPC_INDEX = 0 /\ BACKFILL_QUEUE = <<>> /\ ENQUEUED = {}
  /\ SUBSCRIBED = {} /\ IN_BACKFILL = TRUE /\ bfs = IdleBfsMain
  /\ completions = 0 /\ trail = <<>> /\ subscribeCalls = NoFn
  /\ queueLog = NoQueueLog

(***************************************************************************)
(* withRetry (index.js:57-73)                                              *)
(***************************************************************************)
RECURSIVE Pow2(_)
Pow2(n) == IF n <= 0 THEN 1 ELSE 2 * Pow2(n - 1)

\* line 68: RETRY_BASE_MS * Math.pow(2, attempt - 1)
Backoff_linear(attempt) == RETRY_BASE_MS * attempt
Backoff(attempt) == RETRY_BASE_MS * Pow2(attempt - 1)

\* line 66: new Error(`${label} failed after ${attempt} attempts: ${msg}`)
TerminalError(label, attempt, msg) ==
  [kind |-> "error", val |-> label, attempts |-> attempt, msg |-> msg]

\* line 58: let attempt = 0, then the first fn() is awaited
withRetry_start == [st |-> "call", attempt |-> 0, backoff |-> 0, msg |-> None]

\* lines 62-70: the catch block, entered with the activation r and e.message
withRetry_catch_offbyone(r, msg) ==
  LET attempt == r.attempt + 1 IN
  IF attempt > MAX_RETRIES
    THEN [st |-> "thrown", attempt |-> attempt, backoff |-> 0, msg |-> msg]
    ELSE [st |-> "sleep", attempt |-> attempt,
          backoff |-> Backoff(attempt), msg |-> msg]
withRetry_catch(r, msg) ==
  LET attempt == r.attempt + 1 IN
  IF attempt >= MAX_RETRIES
    THEN [st |-> "thrown", attempt |-> attempt, backoff |-> 0, msg |-> msg]
    ELSE [st |-> "sleep", attempt |-> attempt,
          backoff |-> Backoff(attempt), msg |-> msg]

\* line 70 resumed: the sleep is over, the loop calls fn() again
withRetry_wake(r) == [r EXCEPT !.st = "call"]


(***************************************************************************)
(* handleSignature, the synchronous part after the transaction is fetched  *)
(* (index.js:128-170; the same text at index.js:326-368 and                *)
(* part_001:66-106).                                                       *)
(*                                                                         *)
(* Amounts are JS numbers. The model carries them in tenths: the lamports  *)
(* field of a system transfer is given in units of 10^8 lamports, so       *)
(* Number(lamports)/1e9 SOL is that many tenths of a SOL, and a raw token  *)
(* amount of n units is n * TenthsPerUnit tenths. Both kinds are added     *)
(* into the same Map, as in the source.                                    *)
(***************************************************************************)
TenthsPerUnit == 10
MIN_SOL       == 2          \* 0.2, in tenths
MIN_SPL_UNITS == 1000000
TOKEN_PROGRAMS == {"TokenkegQfeZyiNwAJbNbGKPFXCWuBvf9Ss623VQ5DA",
                   "TokenzQdBNbLqP5VEh9bSTBz2T9SxH3hszMpyyZHPv9"}

\* a parsed instruction: ins.program, ins.programId and ins.parsed.{type,info}
Instr(prog, progId, type, src, dst, lamports, own, srcOwn, auth, dstOwn, acct, amount) ==
  [program |-> prog, programId |-> progId, type |-> type,
   source |-> src, destination |-> dst, lamports |-> lamports,
   owner |-> own, sourceOwner |-> srcOwn, authority |-> auth,
   destinationOwner |-> dstOwn, account |-> acct, amount |-> amount]

\* a system-program transfer of `lamports` (units of 10^8) from src to dst
SolTransfer(src, dst, lamports) ==
  Instr("system", "11111111111111111111111111111111", "transfer",
        src, dst, lamports, None, None, None, None, None, 0)

\* an spl-token transfer signed by `authority`
SplTransfer(type, authority, destinationOwner, destination, amount) ==
  Instr("spl-token", "TokenkegQfeZyiNwAJbNbGKPFXCWuBvf9Ss623VQ5DA", type,
        None, destination, 0, None, None, authority, destinationOwner,
        None, amount)

\* line 48
isCEX(a) == a \in CEX

\* Map.set on a Map kept as the sequence of its entries in insertion order
MapHas(m, k) == \E i \in 1..Len(m) : m[i].to = k
MapGet(m, k) == LET i == CHOOSE i \in 1..Len(m) : m[i].to = k IN m[i].amt
MapSet(m, k, v) ==
  IF MapHas(m, k)
    THEN [i \in 1..Len(m) |-> IF m[i].to = k THEN [to |-> k, amt |-> v]
                                              ELSE m[i]]
    ELSE Append(m, [to |-> k, amt |-> v])
\* dests.set(k, (dests.get(k)||0) + amt)
MapAdd(m, k, amt) == MapSet(m, k, (IF MapHas(m, k) THEN MapGet(m, k) ELSE 0) + amt)

\* lines 136-144: the SOL branch of the loop body
solBranch_noCex(dests, ins, fromAddr) ==
  IF /\ ins.program = "system" /\ ins.type = "transfer"
     /\ ins.source = fromAddr
     /\ ins.lamports >= MIN_SOL
    THEN MapAdd(dests, ins.destination, ins.lamports)
    ELSE dests
solBranch(dests, ins, fromAddr) ==
  IF /\ ins.program = "system" /\ ins.type = "transfer"
     /\ ins.source = fromAddr
     /\ ins.lamports >= MIN_SOL
     /\ ~isCEX(ins.destination)
    THEN MapAdd(dests, ins.destination, ins.lamports)
    ELSE dests

\* line 152: inf.destinationOwner || inf.destination || inf.account || null
toOwnerOf(ins) ==
  IF ins.destinationOwner # None THEN ins.destinationOwner
  ELSE IF ins.destination # None THEN ins.destination
  ELSE ins.account

\* lines 146-157: the SPL branch of the loop body
splBranch(dests, ins, fromAddr) ==
  LET isSpl   == ins.program = "spl-token" \/ ins.programId \in TOKEN_PROGRAMS
      owners  == {ins.owner, ins.sourceOwner, ins.authority} \ {None}
      toOwner == toOwnerOf(ins)
  IN IF /\ isSpl
        /\ ins.type \in {"transfer", "transferChecked"}
        /\ fromAddr \in owners
        /\ toOwner # None
        /\ ins.amount >= MIN_SPL_UNITS
        /\ ~isCEX(toOwner)
       THEN MapAdd(dests, toOwner, ins.amount * TenthsPerUnit)
       ELSE dests

\* lines 128-158: for (const ins of instrs) { ... }
RECURSIVE collectDests(_, _, _, _)
collectDests(dests, instrs, i, fromAddr) ==
  IF i > Len(instrs) THEN dests
  ELSE collectDests(splBranch(solBranch(dests, instrs[i], fromAddr),
                              instrs[i], fromAddr),
                    instrs, i + 1, fromAddr)

\* Array.prototype.sort((a,b)=>b[1]-a[1]): stable, largest amount first
RECURSIVE insertDesc(_, _)
insertDesc(sorted, e) ==
  IF sorted = <<>> THEN <<e>>
  ELSE IF Head(sorted).amt >= e.amt
         THEN <<Head(sorted)>> \o insertDesc(Tail(sorted), e)
         ELSE <<e>> \o sorted
RECURSIVE sortDesc_from(_, _, _)
sortDesc_from(m, i, acc) ==
  IF i > Len(m) THEN acc ELSE sortDesc_from(m, i + 1, insertDesc(acc, m[i]))
sortDesc_unsorted(m) == m
sortDesc(m) == sortDesc_from(m, 1, <<>>)

\* Array.prototype.slice(0, n)
slice0_plusone(a, n) ==
  SubSeq(a, 1, IF n + 1 < Len(a) THEN n + 1 ELSE Len(a))
slice0(a, n) ==
  LET end == IF n < 0 THEN (IF Len(a) + n < 0 THEN 0 ELSE Len(a) + n)
             ELSE IF n < Len(a) THEN n ELSE Len(a)
  IN SubSeq(a, 1, end)

\* line 163
topOf(dests) == slice0(sortDesc(dests), TOP_CHILDREN)

\* lines 164-170: the addAddress calls and the "Max depth" warnings of one
\* classification, in order
expand_nocheck(top, depth) ==
  [calls |-> [i \in 1..Len(top) |->
                [to |-> top[i].to, amt |-> top[i].amt, depth |-> depth + 1]],
   warned |-> <<>>]
expand(top, depth) ==
  LET nextDepth == depth + 1 IN
  IF nextDepth > MAX_DEPTH
    THEN [calls |-> <<>>, warned |-> [i \in 1..Len(top) |-> top[i].to]]
    ELSE [calls |-> [i \in 1..Len(top) |->
                       [to |-> top[i].to, amt |-> top[i].amt,
                        depth |-> nextDepth]],
          warned |-> <<>>]

\* lines 128-170
classify(fromAddr, depth, instrs) ==
  LET dests == collectDests(<<>>, instrs, 1, fromAddr) IN
  IF dests = <<>> THEN [calls |-> <<>>, warned |-> <<>>]   \* line 160
  ELSE expand(topOf(dests), depth)

(***************************************************************************)
(* SpecRetry: one call of withRetry(fn, "rpc") against an fn that may      *)
(* resolve or reject at every invocation.                                  *)
(***************************************************************************)
InitRetry ==
  /\ landed = <<>>
  /\ MAX_RETRIES \in 0..MaxRetriesCfg
  /\ RETRY_BASE_MS \in RetryBaseChoices
  /\ MAX_DEPTH = 6 /\ TOP_CHILDREN = 3 /\ CEX = {}
  /\ DefaultCrawlCfg /\ DefaultOtherCfg
  /\ IdleTop
  /\ IdleCrawl
  /\ IdleBFS
  /\ rw = withRetry_start
  /\ calls = 0
  /\ delays = <<>>
  /\ hist = <<>>
  /\ result = NoResult

\* line 61: fn() resolves with v, withRetry returns it
RetryCallOk ==
  /\ rw.st = "call"
  /\ \E v \in RetVals :
       /\ hist' = Append(hist, [ok |-> TRUE, val |-> v])
       /\ result' = [kind |-> "value", val |-> v, attempts |-> 0, msg |-> None]
  /\ calls' = calls + 1
  /\ rw' = [rw EXCEPT !.st = "returned"]
  /\ UNCHANGED <<cfgVars, notRetry, delays>>

\* lines 61-70: fn() rejects with message m
RetryCallFail ==
  /\ rw.st = "call"
  /\ \E m \in ErrMsgs :
       LET r2 == withRetry_catch(rw, m) IN
       /\ hist' = Append(hist, [ok |-> FALSE, val |-> m])
       /\ rw' = r2
       /\ result' = IF r2.st = "thrown"
                      THEN TerminalError("rpc", r2.attempt, m)
                      ELSE result
       /\ delays' = IF r2.st = "sleep" THEN Append(delays, r2.backoff)
                                       ELSE delays
  /\ calls' = calls + 1
  /\ UNCHANGED <<cfgVars, notRetry>>

\* line 70: the timer fires
RetrySleepDone ==
  /\ rw.st = "sleep"
  /\ rw' = withRetry_wake(rw)
  /\ UNCHANGED <<cfgVars, notRetry, calls, delays, hist, result>>

NextRetry == RetryCallOk \/ RetryCallFail \/ RetrySleepDone

\* every awaited promise of the model settles and every timer fires
SpecRetry == InitRetry /\ [][NextRetry]_vars /\ WF_vars(NextRetry)



(***************************************************************************)
(* The ledger the crawler runs against: the transactions, oldest first,    *)
(*   s0  A initialises a mint (no transfer)                                *)
(*   s1  A -> B 5 SOL, A -> C 3 SOL, A -> K 8 SOL (K is a CEX wallet)      *)
(*   s2  B -> C 8 SOL                                                      *)
(*   s3  C -> A 3 SOL (back to the seed)                                   *)
(*   s4  B -> D 5 SOL     (lands after the backfill)                       *)
(*   s5  A -> D 5 SOL     (lands after the backfill)                       *)
(* getSignaturesForAddress lists, newest first, the transactions that      *)
(* mention the address.                                                    *)
(***************************************************************************)
Sigs == {"s0", "s1", "s2", "s3", "s4", "s5", "s6"}
Chain == <<"s3", "s2", "s1", "s6", "s0">> \* on the ledger at boot, newest first
InvalidAddrs == {"bad!"}                  \* not a base58 public key

TxOf(sig) ==
  CASE sig = "s0" -> [mint |-> TRUE, signer |-> "A", instrs |-> <<>>]
    [] sig = "s1" -> [mint |-> FALSE, signer |-> "A",
                      instrs |-> <<SolTransfer("A", "B", 50),
                                   SolTransfer("A", "C", 30),
                                   SolTransfer("A", "K", 80)>>]
    [] sig = "s2" -> [mint |-> FALSE, signer |-> "B",
                      instrs |-> <<SolTransfer("B", "C", 80)>>]
    [] sig = "s3" -> [mint |-> FALSE, signer |-> "C",
                      instrs |-> <<SolTransfer("C", "A", 30)>>]
    [] sig = "s4" -> [mint |-> FALSE, signer |-> "B",
                      instrs |-> <<SolTransfer("B", "D", 50)>>]
    [] sig = "s6" -> [mint |-> FALSE, signer |-> "K",
                      instrs |-> <<SolTransfer("K", "E", 50)>>]
    [] OTHER      -> [mint |-> FALSE, signer |-> "A",
                      instrs |-> <<SolTransfer("A", "D", 50),
                                   SolTransfer("B", "E", 50)>>]

Mentions(sig) ==
  LET is == TxOf(sig).instrs IN
  {TxOf(sig).signer} \cup {is[i].source : i \in 1..Len(is)}
                     \cup {is[i].destination : i \in 1..Len(is)}

RECURSIVE Filter(_, _)
Filter(seq, addr) ==
  IF seq = <<>> THEN <<>>
  ELSE IF addr \in Mentions(Head(seq))
         THEN <<Head(seq)>> \o Filter(Tail(seq), addr)
         ELSE Filter(Tail(seq), addr)
\* the signatures that mention addr, newest first: those that landed since
\* the start, then those of the ledger at boot
History(addr) == Filter(landed \o Chain, addr)

IndexOf(seq, x) == CHOOSE i \in 1..Len(seq) : seq[i] = x

\* connConf.getSignaturesForAddress(pk, { before, limit }) (line 77)
getSignaturesForAddress(addr, before, limit) ==
  LET h     == History(addr)
      first == IF before = None THEN 1 ELSE IndexOf(h, before) + 1
      last  == IF first + limit - 1 < Len(h) THEN first + limit - 1 ELSE Len(h)
  IN SubSeq(h, first, last)

\* sigs.slice().reverse() (line 189)
Reverse_same(seq) == seq
Reverse(seq) == [i \in 1..Len(seq) |-> seq[Len(seq) + 1 - i]]

(***************************************************************************)
(* addAddress (index.js:90-104) on reg = [DEPTH, WATCH, subCount]          *)
(***************************************************************************)
Bump(f, k) == (k :> (IF k \in DOMAIN f THEN f[k] + 1 ELSE 1)) @@ f
AddTo(f, k, x) == (k :> ((IF k \in DOMAIN f THEN f[k] ELSE {}) \cup {x})) @@ f
Put(f, k, v) == (k :> v) @@ f

\* new PublicKey(addr) does not throw (lines 100, 176)
validKey(a) == a \notin InvalidAddrs

addAddress_always(reg, addr, depth, subscribeNow) ==
  [reg EXCEPT !.DEPTH = Put(reg.DEPTH, addr, depth)]
addAddress_nobound(reg, addr, depth, subscribeNow) ==
  IF addr \notin DOMAIN reg.DEPTH \/ depth < reg.DEPTH[addr]
    THEN [reg EXCEPT !.DEPTH = Put(reg.DEPTH, addr, depth)]
    ELSE reg
addAddress(reg, addr, depth, subscribeNow) ==
  IF addr = None THEN reg                                     \* line 91
  ELSE IF depth > MAX_DEPTH THEN reg                          \* line 92
  ELSE
    LET r1 == IF addr \notin DOMAIN reg.DEPTH \/ depth < reg.DEPTH[addr]
                THEN [reg EXCEPT !.DEPTH = Put(reg.DEPTH, addr, depth)]
                ELSE reg                                      \* line 95
    IN IF ~subscribeNow THEN r1                               \* line 97
       ELSE IF addr \in DOMAIN r1.WATCH THEN r1               \* line 99
       ELSE IF ~validKey(addr) THEN r1                        \* line 100
       ELSE [r1 EXCEPT !.WATCH = Put(r1.WATCH, addr, depth),  \* 101-102
                       !.subCount = Bump(r1.subCount, addr)]

Reg == [DEPTH |-> DEPTH, WATCH |-> WATCH, subCount |-> subCount]
SetReg(reg) ==
  /\ DEPTH' = reg.DEPTH
  /\ WATCH' = reg.WATCH
  /\ subCount' = reg.subCount

\* line 232: for (const a of SEEDS) addAddress(a, 0, false)
RECURSIVE addSeeds(_, _)
addSeeds(reg, i) ==
  IF i > Len(SEEDS) THEN reg
  ELSE addSeeds(addAddress(reg, SEEDS[i], 0, FALSE), i + 1)

Range(seq) == {seq[i] : i \in 1..Len(seq)}
\* the calls of `out` that addAddress takes past its depth check (line 92)
observedOf(out) ==
  {<<out[i].to, out[i].depth>> : i \in {j \in 1..Len(out) : out[j].depth <= MAX_DEPTH}}

\* lines 164-170: addAddress(to, nextDepth, false) for each call of `out`
RECURSIVE applyCalls(_, _, _)
applyCalls(reg, out, i) ==
  IF i > Len(out) THEN reg
  ELSE applyCalls(addAddress(reg, out[i].to, out[i].depth, FALSE), out, i + 1)

\* line 239: for (const [addr, depth] of DEPTH.entries())
\*             addAddress(addr, depth, true)
RECURSIVE subscribeAll(_, _)
subscribeAll(reg, todo) ==
  IF todo = {} THEN reg
  ELSE LET a == CHOOSE a \in todo : TRUE IN
       subscribeAll(addAddress(reg, a, reg.DEPTH[a], TRUE), todo \ {a})

\* SEEN.has(sig) (lines 109, 196)
seenHas_never(seen, sig) == FALSE
seenHas(seen, sig) == sig \in seen

(***************************************************************************)
(* boot and backfillAllFrom (index.js:174-242): the coroutine `boot`.      *)
(* BACKFILL_ALL is true, its default.                                      *)
(*   pc = "page"       awaiting getSigsPage (line 182)                     *)
(*   pc = "tx"         awaiting getParsedTx in handleSignature (line 118)  *)
(*   pc = "sleep429"   awaiting sleep(1500) (line 204)                     *)
(*   pc = "txDelay"    awaiting sleep(TX_DELAY_MS) (line 212)              *)
(*   pc = "pageDelay"  awaiting sleep(REQ_DELAY_MS) (line 216)             *)
(*   pc = "transition" backfill of every seed returned (line 238)          *)
(*   pc = "live"       boot returned                                       *)
(***************************************************************************)
\* lines 233-236 from seed i on: backfillAllFrom(SEEDS[i]) until its first
\* await; new PublicKey throws for a malformed seed (line 176), which the
\* catch of line 235 logs before the loop goes on
RECURSIVE startSeed(_)
startSeed(i) ==
  IF i > Len(SEEDS)
    THEN [IdleMain EXCEPT !.pc = "transition", !.seedIdx = i]
  ELSE IF ~validKey(SEEDS[i]) THEN startSeed(i + 1)
  ELSE [IdleMain EXCEPT !.pc = "page", !.seedIdx = i, !.rw = withRetry_start]

\* DEPTH.get(addr) ?? 0 (line 198)
depthOf(addr) == IF addr \in DOMAIN DEPTH THEN DEPTH[addr] ELSE 0

\* lines 190-212: one turn of `for (const s of batch)` up to its await;
\* b.batch holds s and what follows it. `enter` is the signature handed to
\* handleSignature, if any.
forLoop(b) ==
  IF b.batch = <<>>
    THEN [boot |-> [b EXCEPT !.pc = "pageDelay"], enter |-> None]
  ELSE IF BACKFILL_LIMIT # 0 /\ b.count >= BACKFILL_LIMIT        \* line 191
    THEN [boot |-> startSeed(b.seedIdx + 1), enter |-> None]
  ELSE IF ~seenHas(SEEN, Head(b.batch))                          \* line 196
    THEN [boot |-> [b EXCEPT !.pc = "tx", !.sig = Head(b.batch),
                             !.depth = depthOf(SEEDS[b.seedIdx]),
                             !.handed = b.handed + 1,
                             !.rw = withRetry_start],
          enter |-> Head(b.batch)]
  ELSE [boot |-> [b EXCEPT !.pc = "txDelay"], enter |-> None]

Enter_noadd(r) ==
  /\ boot' = r.boot
  /\ SEEN' = SEEN
  /\ entered' = IF r.enter = None THEN entered ELSE Bump(entered, r.enter)
  /\ via' = IF r.enter = None THEN via ELSE AddTo(via, r.enter, "backfill")
\* handleSignature is entered: SEEN.add(signature) (line 115)
Enter(r) ==
  /\ boot' = r.boot
  /\ SEEN' = IF r.enter = None THEN SEEN ELSE SEEN \cup {r.enter}
  /\ entered' = IF r.enter = None THEN entered ELSE Bump(entered, r.enter)
  /\ via' = IF r.enter = None THEN via ELSE AddTo(via, r.enter, "backfill")

\* lines 230-234: the seeds are registered, the first backfill starts
BootStart ==
  /\ boot.pc = "boot"
  /\ SetReg(addSeeds(Reg, 1))
  /\ boot' = startSeed(1)
  /\ observed' = observed \cup
       {<<SEEDS[i], 0>> : i \in {j \in 1..Len(SEEDS) : 0 <= MAX_DEPTH}}
  /\ UNCHANGED <<cfgVars, notCrawl, SEEN, notifs, handlers, entered,
                 expanded, warned, liveFound, via, dropped>>

\* line 182: the page arrives
PageOk ==
  /\ boot.pc = "page" /\ boot.rw.st = "call"
  /\ LET page == getSignaturesForAddress(SEEDS[boot.seedIdx], boot.before,
                                         PAGE_SIZE)
     IN IF page = <<>>                                    \* line 183
          THEN Enter([boot |-> startSeed(boot.seedIdx + 1), enter |-> None])
          ELSE Enter(forLoop([boot EXCEPT !.before = page[Len(page)],
                                          !.batch = Reverse(page)]))
  /\ UNCHANGED <<cfgVars, notCrawl, WATCH, DEPTH, subCount, notifs, handlers,
                 expanded, warned, liveFound, dropped, observed>>

\* line 182: getSignaturesForAddress rejects; withRetry retries or throws,
\* and the throw ends this seed's backfill (line 235)
PageFail ==
  /\ boot.pc = "page" /\ boot.rw.st = "call"
  /\ \E msg \in ErrMsgs :
       LET r2 == withRetry_catch(boot.rw, msg) IN
       boot' = IF r2.st = "thrown" THEN startSeed(boot.seedIdx + 1)
               ELSE [boot EXCEPT !.rw = r2]
  /\ UNCHANGED <<cfgVars, notCrawl, regVars, notifs, handlers, logVars>>

\* line 70, within boot: the backoff is over
BootRetryWake ==
  /\ boot.rw.st = "sleep"
  /\ boot' = [boot EXCEPT !.rw = withRetry_wake(boot.rw)]
  /\ UNCHANGED <<cfgVars, notCrawl, regVars, notifs, handlers, logVars>>

\* lines 118-170 and 199: the transaction arrives (or null does)
TxOk ==
  /\ boot.pc = "tx" /\ boot.rw.st = "call"
  /\ \E present \in BOOLEAN :
       LET out == classify(SEEDS[boot.seedIdx], boot.depth,
                           TxOf(boot.sig).instrs)
       IN IF present
            THEN /\ SetReg(applyCalls(Reg, out.calls, 1))
                 /\ expanded' = Bump(expanded, boot.sig)
                 /\ warned' = warned \cup Range(out.warned)
                 /\ observed' = observed \cup observedOf(out.calls)
            ELSE UNCHANGED <<WATCH, DEPTH, subCount, expanded, warned, observed>>
  /\ boot' = [boot EXCEPT !.pc = "txDelay", !.count = boot.count + 1,
                          !.sig = None, !.depth = 0, !.rw = IdleMain.rw]
  /\ UNCHANGED <<cfgVars, notCrawl, SEEN, notifs, handlers, entered, liveFound,
                 via, dropped>>

\* line 201: e.message of the error withRetry threw (line 66) includes "429"
includes429(e) == e.msg = "429"

\* lines 118, 200-208: getParsedTransaction rejects
TxFail ==
  /\ boot.pc = "tx" /\ boot.rw.st = "call"
  /\ \E msg \in ErrMsgs :
       LET r2 == withRetry_catch(boot.rw, msg) IN
       boot' = IF r2.st = "thrown"
                 THEN [boot EXCEPT !.rw = IdleMain.rw, !.sig = None,
                         !.depth = 0,
                         !.pc = IF includes429(TerminalError(
                                      "getParsedTransaction", r2.attempt, msg))
                                  THEN "sleep429" ELSE "txDelay"]
                 ELSE [boot EXCEPT !.rw = r2]
  /\ UNCHANGED <<cfgVars, notCrawl, regVars, notifs, handlers, logVars>>

\* line 204
Sleep429Done ==
  /\ boot.pc = "sleep429"
  /\ boot' = [boot EXCEPT !.pc = "txDelay"]
  /\ UNCHANGED <<cfgVars, notCrawl, regVars, notifs, handlers, logVars>>

\* line 212, then the next turn of the for loop
TxDelayDone ==
  /\ boot.pc = "txDelay"
  /\ Enter(forLoop([boot EXCEPT !.batch = Tail(boot.batch)]))
  /\ UNCHANGED <<cfgVars, notCrawl, WATCH, DEPTH, subCount, notifs, handlers,
                 expanded, warned, liveFound, dropped, observed>>

\* lines 216-218, then the next page is asked for (line 182)
PageDelayDone ==
  /\ boot.pc = "pageDelay"
  /\ boot' = IF BACKFILL_LIMIT # 0 /\ boot.count >= BACKFILL_LIMIT
               THEN startSeed(boot.seedIdx + 1)
               ELSE [boot EXCEPT !.pc = "page", !.rw = withRetry_start]
  /\ UNCHANGED <<cfgVars, notCrawl, regVars, notifs, handlers, logVars>>

\* lines 238-241: every known address is subscribed
Transition ==
  /\ boot.pc = "transition"
  /\ SetReg(subscribeAll(Reg, DOMAIN DEPTH))
  /\ boot' = [IdleMain EXCEPT !.pc = "live"]
  /\ observed' = observed \cup {<<a, DEPTH[a]>> : a \in DOMAIN DEPTH}
  /\ UNCHANGED <<cfgVars, notCrawl, SEEN, notifs, handlers, entered,
                 expanded, warned, liveFound, via, dropped>>

(***************************************************************************)
(* onLogs (index.js:106-112): the node calls the callback of a             *)
(* subscription with a signature that mentions the subscribed address.     *)
(***************************************************************************)
Notify ==
  /\ notifs < MaxNotifs
  /\ \E addr \in DOMAIN subCount : \E sig \in Sigs :
       /\ addr \in Mentions(sig)
       /\ IF seenHas(SEEN, sig)                                  \* line 109
            THEN /\ dropped' = dropped \cup {<<addr, sig>>}
                 /\ UNCHANGED <<SEEN, handlers, entered, via>>
            ELSE /\ SEEN' = SEEN \cup {sig}                      \* line 115
                 /\ entered' = Bump(entered, sig)
                 /\ via' = AddTo(via, sig, "live")
                 /\ dropped' = dropped
                 /\ handlers' = handlers \cup
                      {[addr |-> addr, depth |-> depthOf(addr), sig |-> sig,
                        rw |-> withRetry_start]}
  /\ notifs' = notifs + 1
  /\ UNCHANGED <<cfgVars, notCrawl, WATCH, DEPTH, subCount, boot,
                 expanded, warned, liveFound, observed>>

\* lines 118-170 in a live activation
HandlerTxOk ==
  \E h \in handlers :
    /\ h.rw.st = "call"
    /\ \E present \in BOOLEAN :
         LET out == classify(h.addr, h.depth, TxOf(h.sig).instrs) IN
         IF present
           THEN /\ SetReg(applyCalls(Reg, out.calls, 1))
                /\ expanded' = Bump(expanded, h.sig)
                /\ warned' = warned \cup Range(out.warned)
                /\ observed' = observed \cup observedOf(out.calls)
                /\ liveFound' = liveFound \cup
                                  {out.calls[i].to : i \in 1..Len(out.calls)}
           ELSE UNCHANGED <<WATCH, DEPTH, subCount, expanded, warned,
                            liveFound, observed>>
    /\ handlers' = handlers \ {h}
    /\ UNCHANGED <<cfgVars, notCrawl, SEEN, notifs, boot, entered, via, dropped>>

\* lines 118 and 111: getParsedTransaction rejects in a live activation
HandlerTxFail ==
  \E h \in handlers : \E msg \in ErrMsgs :
    /\ h.rw.st = "call"
    /\ LET r2 == withRetry_catch(h.rw, msg) IN
       handlers' = IF r2.st = "thrown" THEN handlers \ {h}
                   ELSE (handlers \ {h}) \cup {[h EXCEPT !.rw = r2]}
    /\ UNCHANGED <<cfgVars, notCrawl, regVars, notifs, boot, logVars>>

\* line 70, within a live activation
HandlerRetryWake ==
  \E h \in handlers :
    /\ h.rw.st = "sleep"
    /\ handlers' = (handlers \ {h}) \cup {[h EXCEPT !.rw = withRetry_wake(h.rw)]}
    /\ UNCHANGED <<cfgVars, notCrawl, regVars, notifs, boot, logVars>>

SeedChoices == {<<"A">>, <<"A", "B">>, <<"bad!", "A">>}

Init ==
  /\ landed = <<>>
  /\ SEEDS \in SeedChoices
  /\ MAX_DEPTH \in {1, 2}
  /\ TOP_CHILDREN \in {1, 2}
  /\ MAX_RETRIES = 2 /\ RETRY_BASE_MS = 500
  /\ CEX = {"K"}
  /\ PAGE_SIZE = 2
  /\ BACKFILL_LIMIT = 0
  /\ WATCH = NoFn /\ DEPTH = NoFn /\ SEEN = {} /\ subCount = NoFn
  /\ notifs = 0
  /\ boot = [IdleMain EXCEPT !.pc = "boot"]
  /\ handlers = {}
  /\ entered = NoFn /\ expanded = NoFn /\ warned = {} /\ liveFound = {}
  /\ via = NoFn /\ dropped = {} /\ observed = {}
  /\ DefaultOtherCfg
  /\ IdleRetry
  /\ IdleTop
  /\ IdleBFS

Next ==
  \/ BootStart \/ PageOk \/ PageFail \/ BootRetryWake \/ TxOk \/ TxFail
  \/ Sleep429Done \/ TxDelayDone \/ PageDelayDone \/ Transition
  \/ Notify \/ HandlerTxOk \/ HandlerTxFail \/ HandlerRetryWake

Spec == Init /\ [][Next]_vars

(***************************************************************************)
(* SpecTopN: one classification (index.js:128-170) of a transaction whose  *)
(* instruction list is drawn from InstrChoices: outgoing SOL transfers of  *)
(* "A" below and above MIN_SOL, to a CEX wallet "K", a transfer of another *)
(* source, token transfers above and below MIN_SPL_UNITS.                  *)
(***************************************************************************)
InstrChoices ==
  {SolTransfer("A", "X", 1), SolTransfer("A", "X", 30),
   SolTransfer("A", "X", 50), SolTransfer("A", "Y", 30),
   SolTransfer("A", "Y", 50), SolTransfer("A", "Z", 80),
   SolTransfer("A", "Z", 50), SolTransfer("A", "K", 80),
   SolTransfer("B", "X", 80),
   SplTransfer("transfer", "A", "Y", "T", 1000000),
   SplTransfer("transferChecked", "A", None, "T", 2000000),
   SplTransfer("transfer", "A", "X", "T", 999999)}

InitTopN ==
  /\ landed = <<>>
  /\ MAX_RETRIES = 3 /\ RETRY_BASE_MS = 500
  /\ MAX_DEPTH = 1
  /\ TOP_CHILDREN \in 0..MaxTopCfg
  /\ CEX = {"K"}
  /\ \E n \in 0..MaxInstrs : \E is \in [1..n -> InstrChoices] :
       \E d \in 0..1 : cIn = [from |-> "A", depth |-> d, instrs |-> is]
  /\ cOut = NoOutput
  /\ DefaultCrawlCfg /\ DefaultOtherCfg
  /\ IdleRetry
  /\ IdleCrawl
  /\ IdleBFS

\* handleSignature resumed after `await getParsedTx`: lines 128-170
Classify ==
  /\ ~cOut.done
  /\ LET r == classify(cIn.from, cIn.depth, cIn.instrs) IN
       cOut' = [done |-> TRUE, calls |-> r.calls, warned |-> r.warned]
  /\ UNCHANGED <<cfgVars, notTop, cIn>>

NextTopN == Classify
SpecTopN == InitTopN /\ [][NextTopN]_vars

(***************************************************************************)
(* Claims about withRetry                                                  *)
(***************************************************************************)
RetryDone == rw.st \in {"returned", "thrown"}
FailsOf(h) == Cardinality({i \in 1..Len(h) : ~h[i].ok})
\* the number of attempts withRetry really makes before it gives up
EffectiveRetries == IF MAX_RETRIES >= 1 THEN MAX_RETRIES ELSE 1

\* C6 (as stated): withRetry invokes the wrapped call at most MAX_RETRIES
\* times for every configured MAX_RETRIES, and the terminal error names
\* MAX_RETRIES attempts and carries the last error message.
C6_CallsAtMostMaxRetries ==
  /\ calls <= MAX_RETRIES
  /\ rw.st = "thrown" =>
       /\ result.attempts = MAX_RETRIES
       /\ result.msg = hist[Len(hist)].val

\* C6 (amended): withRetry invokes the wrapped call at most
\* max(1, MAX_RETRIES) times; it returns the value of the first successful
\* attempt; when every attempt fails it throws an error whose attempt count
\* is max(1, MAX_RETRIES) and whose message is the last error message; and
\* every activation ends (returns or throws).
C6_RetryInv ==
  /\ calls <= EffectiveRetries
  /\ calls = Len(hist)
  /\ rw.st = "returned" =>
       /\ hist[Len(hist)].ok
       /\ \A i \in 1..(Len(hist) - 1) : ~hist[i].ok
       /\ result.kind = "value"
       /\ result.val = hist[Len(hist)].val
  /\ rw.st = "thrown" =>
       /\ \A i \in 1..Len(hist) : ~hist[i].ok
       /\ calls = EffectiveRetries
       /\ result.kind = "error"
       /\ result.attempts = EffectiveRetries
       /\ result.msg = hist[Len(hist)].val
C6_WithRetryBounded == []C6_RetryInv /\ <>RetryDone

\* C6 witness: every attempt failed under MAX_RETRIES = 3, and (another
\* run) the first call failed under MAX_RETRIES = 0.
C6_Witness ==
  /\ rw.st = "thrown"
  /\ MAX_RETRIES = 3
  /\ calls = 3

\* C7: the delay slept before retry n is RETRY_BASE_MS * 2^(n-1): the first
\* is RETRY_BASE_MS and each next one doubles; one delay follows every
\* failed attempt but the final one; with MAX_RETRIES = 3 and
\* RETRY_BASE_MS = 500, failing twice then succeeding sleeps 500 then 1000,
\* and failing throughout throws the error naming 3 attempts.
C7_BackoffSchedule ==
  /\ Len(delays) >= 1 => delays[1] = RETRY_BASE_MS
  /\ \A n \in 1..(Len(delays) - 1) : delays[n + 1] = 2 * delays[n]
  /\ Len(delays) = FailsOf(hist) - (IF rw.st = "thrown" THEN 1 ELSE 0)
  /\ (MAX_RETRIES = 3 /\ RETRY_BASE_MS = 500) =>
       /\ (rw.st = "returned" /\ FailsOf(hist) = 2) => delays = <<500, 1000>>
       /\ rw.st = "thrown" =>
            /\ result.attempts = 3
            /\ delays = <<500, 1000>>

\* C7 witness: two failures then a success, MAX_RETRIES = 3, base 500.
C7_Witness ==
  /\ MAX_RETRIES = 3
  /\ RETRY_BASE_MS = 500
  /\ rw.st = "returned"
  /\ FailsOf(hist) = 2

(***************************************************************************)
(* Claims about the top-N expansion                                        *)
(***************************************************************************)
\* what the claim calls a qualifying outgoing transfer of `from`, stated on
\* the instruction alone
QualSol(ins, from) ==
  ins.program = "system" /\ ins.type = "transfer" /\ ins.source = from
  /\ ins.lamports >= MIN_SOL
QualSpl(ins, from) ==
  ins.program = "spl-token" /\ ins.type \in {"transfer", "transferChecked"}
  /\ from \in {ins.owner, ins.sourceOwner, ins.authority}
  /\ ins.amount >= MIN_SPL_UNITS
QualDest(ins, from) ==
  IF QualSol(ins, from) THEN ins.destination
  ELSE IF QualSpl(ins, from) THEN toOwnerOf(ins)
  ELSE None
QualAmt(ins, from) ==
  IF QualSol(ins, from) THEN ins.lamports
  ELSE IF QualSpl(ins, from) THEN ins.amount * TenthsPerUnit
  ELSE 0
RECURSIVE AggOf(_, _, _, _)
AggOf(d, instrs, from, i) ==
  IF i > Len(instrs) THEN 0
  ELSE (IF QualDest(instrs[i], from) = d THEN QualAmt(instrs[i], from) ELSE 0)
       + AggOf(d, instrs, from, i + 1)
FirstIdx(d, instrs, from) ==
  CHOOSE i \in 1..Len(instrs) :
    /\ QualDest(instrs[i], from) = d
    /\ \A j \in 1..(i - 1) : QualDest(instrs[j], from) # d
Candidates(instrs, from) ==
  {QualDest(instrs[i], from) : i \in 1..Len(instrs)} \ ({None} \cup CEX)
\* a ranks before b: larger aggregate, or the same and encountered first
RanksBefore(a, b, instrs, from) ==
  LET x == AggOf(a, instrs, from, 1)
      y == AggOf(b, instrs, from, 1)
  IN x > y \/ (x = y /\ FirstIdx(a, instrs, from) < FirstIdx(b, instrs, from))

ExampleTx == <<SolTransfer("A", "X", 50), SolTransfer("A", "Y", 30),
               SolTransfer("A", "Z", 80)>>

\* C4: for one classified transaction handleSignature passes to addAddress
\* at most TOP_CHILDREN destinations: those with the largest aggregated
\* amount, in descending order of that amount, ties in first-encountered
\* order; none is in CEX and each has a transfer at or above the
\* threshold. A->X=5, A->Y=3, A->Z=8 with TOP_CHILDREN = 2 gives Z then X.
C4_TopN ==
  cOut.done =>
    LET out   == cOut.calls
        is    == cIn.instrs
        from  == cIn.from
        cands == Candidates(is, from)
        outs  == {out[i].to : i \in 1..Len(out)}
    IN /\ Len(out) <= TOP_CHILDREN
       /\ \A i \in 1..Len(out) :
            /\ out[i].to \in cands
            /\ out[i].to \notin CEX
            /\ out[i].amt = AggOf(out[i].to, is, from, 1)
            /\ out[i].depth = cIn.depth + 1
       /\ \A i, j \in 1..Len(out) :
            i < j => RanksBefore(out[i].to, out[j].to, is, from)
       /\ \A c \in cands \ outs : \A o \in outs : RanksBefore(o, c, is, from)
       /\ cIn.depth + 1 <= MAX_DEPTH =>
            Len(out) = (IF Cardinality(cands) < TOP_CHILDREN
                          THEN Cardinality(cands) ELSE TOP_CHILDREN)
       /\ cIn.depth + 1 > MAX_DEPTH => out = <<>>
       /\ (is = ExampleTx /\ TOP_CHILDREN = 2 /\ cIn.depth = 0) =>
            [i \in 1..Len(out) |-> out[i].to] = <<"Z", "X">>

\* C4 witness: the example transaction was classified with TOP_CHILDREN = 2.
C4_Witness ==
  /\ cOut.done
  /\ cIn.instrs = ExampleTx
  /\ cIn.depth = 0
  /\ TOP_CHILDREN = 2
  /\ Len(cOut.calls) = 2

(***************************************************************************)
(* Claims about the crawl of index.js (Spec)                               *)
(***************************************************************************)
Live == boot.pc = "live"

\* C1: for every signature the body of handleSignature (fetch, mint signal,
\* expansion) runs at most once in the whole run, whichever of
\* backfillAllFrom and onLogs meet it and however the live activations
\* interleave; a signature classified by the backfill and delivered again
\* by a live notification is not expanded again.
C1_AtMostOnce ==
  /\ \A s \in DOMAIN entered : entered[s] <= 1
  /\ \A s \in DOMAIN expanded : expanded[s] <= 1 /\ s \in DOMAIN entered
  /\ \A s \in DOMAIN via : Cardinality(via[s]) = 1
  /\ \A h1, h2 \in handlers : h1.sig = h2.sig => h1 = h2
  /\ DOMAIN entered = SEEN

\* C1 witness: a signature the backfill classified and expanded came back
\* as a live notification, and onLogs returned on it.
C1_Witness ==
  \E p \in dropped :
    /\ p[2] \in DOMAIN via /\ via[p[2]] = {"backfill"}
    /\ p[2] \in DOMAIN expanded
    /\ Live

\* the depth argument of the handleSignature activation that ends in this
\* step (a step that runs lines 119-170)
EndingDepth ==
  IF boot.pc = "tx" THEN boot.depth
  ELSE (CHOOSE h \in handlers : h \notin handlers').depth
EndingFrom ==
  IF boot.pc = "tx" THEN SEEDS[boot.seedIdx]
  ELSE (CHOOSE h \in handlers : h \notin handlers').addr
EndingSig ==
  IF boot.pc = "tx" THEN boot.sig
  ELSE (CHOOSE h \in handlers : h \notin handlers').sig

\* C2: no address is in DEPTH or in WATCH with a depth above MAX_DEPTH; and
\* when handleSignature runs for an address at depth MAX_DEPTH, every
\* qualifying destination among the top TOP_CHILDREN is dropped with a
\* warning: DEPTH, WATCH and the subscriptions do not change.
C2_DepthInv ==
  /\ \A a \in DOMAIN DEPTH : DEPTH[a] <= MAX_DEPTH
  /\ \A a \in DOMAIN WATCH : WATCH[a] <= MAX_DEPTH /\ a \in DOMAIN DEPTH
C2_DropStep ==
  (expanded' # expanded /\ EndingDepth >= MAX_DEPTH) =>
     /\ DEPTH' = DEPTH /\ WATCH' = WATCH /\ subCount' = subCount
     /\ LET cands == Candidates(TxOf(EndingSig).instrs, EndingFrom) IN
        Cardinality(cands) <= TOP_CHILDREN => cands \subseteq warned'
C2_DepthBound == []C2_DepthInv /\ [][C2_DropStep]_vars

\* C2 witness: an address at depth MAX_DEPTH was classified, its
\* destination was warned about and is not registered.
C2_Witness ==
  \E d \in warned : d \notin DOMAIN DEPTH /\ d \notin DOMAIN WATCH

\* C5: once DEPTH has an entry for an address, the stored depth never
\* increases, whichever caller of addAddress acts.
C5_DepthStep ==
  \A a \in DOMAIN DEPTH : a \in DOMAIN DEPTH' /\ DEPTH'[a] <= DEPTH[a]
C5_DepthNonIncreasing == [][C5_DepthStep]_vars

\* C5 witness: addAddress met a discovered address at two depths, and DEPTH
\* holds the smaller one.
C5_Witness ==
  \E p \in observed :
    /\ p[1] \in DOMAIN DEPTH /\ DEPTH[p[1]] < p[2]
    /\ <<p[1], DEPTH[p[1]]>> \in observed
    /\ p[1] \notin Range(SEEDS)

\* C10: in the live phase every destination a live classification passes to
\* addAddress (within MAX_DEPTH) gets a push subscription: it is in WATCH.
C10_LiveExpansionSubscribed ==
  \A d \in liveFound : d \in DOMAIN WATCH


(***************************************************************************)
(* The breadth-first variant (src/unnamed/part_000)                        *)
(***************************************************************************)
SIGS_LIMIT == 1000      \* line 54: limit of one getSignaturesForAddress call
MAX_PAGES  == 5         \* line 66: if (page > 5) break

\* tx.transaction.message.accountKeys and tx.meta.postBalances of the
\* ledger's transactions (lines 144-149), balances in the unit of MIN_SOL
AccountKeys(sig) ==
  CASE sig = "s0" -> <<"A">>
    [] sig = "s1" -> <<"A", "B", "C", "K">>
    [] sig = "s2" -> <<"B", "C">>
    [] sig = "s3" -> <<"C", "A">>
    [] sig = "s4" -> <<"B", "D">>
    [] sig = "s6" -> <<"K", "E">>
    [] OTHER      -> <<"A", "B", "D", "E">>
PostBalances(sig) ==
  CASE sig = "s0" -> <<200>>
    [] sig = "s1" -> <<40, 81, 30, 80>>
    [] sig = "s2" -> <<1, 110>>
    [] sig = "s3" -> <<80, 70>>
    [] sig = "s4" -> <<1, 50>>
    [] sig = "s6" -> <<30, 50>>
    [] OTHER      -> <<20, 20, 50, 50>>

\* lines 10-14: rpcUrl() moves RPC_INDEX round the list
rpcUrl(idx) == (idx + 1) % Len(RPCS)

\* lines 111-116: the seeds are enqueued at depth 0
RECURSIVE enqueueSeeds(_, _)
enqueueSeeds(st, i) ==
  IF i > Len(SEEDS) THEN st
  ELSE IF SEEDS[i] \in st.enq                                    \* line 112
    THEN enqueueSeeds([st EXCEPT !.met = Bump(st.met, SEEDS[i])], i + 1)
  ELSE enqueueSeeds([enq |-> st.enq \cup {SEEDS[i]},
                     q   |-> Append(st.q, [addr |-> SEEDS[i], depth |-> 0]),
                     pushed |-> Bump(st.pushed, SEEDS[i]),
                     met |-> Bump(st.met, SEEDS[i])],
                    i + 1)

\* lines 148-155: the accounts of one transaction, from index i on
RECURSIVE parseTx_noguard(_, _, _, _)
RECURSIVE parseTx(_, _, _, _)
parseTx_noguard(st, accs, bals, i) ==
  IF i > Len(accs) THEN st
  ELSE IF bals[i] >= MIN_SOL
    THEN parseTx_noguard([enq |-> st.enq \cup {accs[i]},
                  q   |-> Append(st.q, [addr |-> accs[i], depth |-> 1]),
                  pushed |-> Bump(st.pushed, accs[i]),
                  met |-> Bump(st.met, accs[i])],
                 accs, bals, i + 1)
    ELSE parseTx_noguard(st, accs, bals, i + 1)
parseTx(st, accs, bals, i) ==
  IF i > Len(accs) THEN st
  ELSE IF bals[i] >= MIN_SOL /\ accs[i] \notin st.enq             \* line 150
    THEN parseTx([enq |-> st.enq \cup {accs[i]},
                  q   |-> Append(st.q, [addr |-> accs[i], depth |-> 1]),
                  pushed |-> Bump(st.pushed, accs[i]),
                  met |-> Bump(st.met, accs[i])],
                 accs, bals, i + 1)
  ELSE IF bals[i] >= MIN_SOL
    THEN parseTx([st EXCEPT !.met = Bump(st.met, accs[i])], accs, bals, i + 1)
    ELSE parseTx(st, accs, bals, i + 1)

\* lines 127-133: the queue is empty at the end of a drain
emptyRound_nowait(lastSize) == "break"
emptyRound(lastSize) == IF lastSize = 0 THEN "break" ELSE "wait"

\* lines 162-165
subscribe_dup(st, addr) ==
  [SUBSCRIBED |-> st.SUBSCRIBED \cup {addr}, calls |-> Bump(st.calls, addr)]
subscribe(st, addr) ==
  IF addr \in st.SUBSCRIBED THEN st
  ELSE [SUBSCRIBED |-> st.SUBSCRIBED \cup {addr},
        calls |-> Bump(st.calls, addr)]

\* lines 178-180: for (const a of SEEDS) subscribe(a, 0)
RECURSIVE subscribeSeeds(_, _)
subscribeSeeds(st, i) ==
  IF i > Len(SEEDS) THEN st
  ELSE subscribeSeeds(subscribe(st, SEEDS[i]), i + 1)

\* lines 119-138: backfillBFS from the head of while (true) to its next
\* await, with the activation b, the queue q, RPC_INDEX idx and the trail tr
LoopHead(b, q, idx, tr) ==
  IF q # <<>>
    THEN /\ BACKFILL_QUEUE' = Tail(q)                      \* line 122
         /\ bfs' = [b EXCEPT !.pc = "fetchSigs", !.addr = Head(q).addr,
                             !.depth = Head(q).depth,
                             !.sigs = <<>>, !.todo = <<>>,
                             !.before = None, !.page = 0]  \* lines 45-47
         /\ RPC_INDEX' = rpcUrl(idx)                       \* line 56
         /\ trail' = <<>>
         /\ UNCHANGED <<IN_BACKFILL, completions>>
  ELSE IF emptyRound(b.lastSize) = "break"
    THEN /\ BACKFILL_QUEUE' = q
         /\ bfs' = [b EXCEPT !.pc = "returned"]
         /\ IN_BACKFILL' = FALSE                           \* line 138
         /\ completions' = completions + 1                 \* line 137
         /\ trail' = Append(tr, "empty")
         /\ RPC_INDEX' = idx
    ELSE /\ BACKFILL_QUEUE' = q
         /\ bfs' = [b EXCEPT !.pc = "settle", !.lastSize = 0]   \* line 132
         /\ trail' = Append(tr, "empty")
         /\ RPC_INDEX' = idx
         /\ UNCHANGED <<IN_BACKFILL, completions>>

\* lines 99-103: one turn of `for (const s of sigs)` up to its await
ForSigs(b, q, idx, tr) ==
  IF b.todo = <<>>
    THEN LoopHead([b EXCEPT !.addr = None, !.depth = 0, !.sigs = <<>>,
                            !.before = None, !.page = 0], q, idx, tr)
    ELSE /\ bfs' = [b EXCEPT !.pc = "fetchTx"]
         /\ RPC_INDEX' = rpcUrl(idx)                       \* line 83
         /\ BACKFILL_QUEUE' = q
         /\ trail' = tr
         /\ UNCHANGED <<IN_BACKFILL, completions>>

\* lines 170-175 and 111-123
BfsStart ==
  /\ bfs.pc = "main"
  /\ LET st == enqueueSeeds([enq |-> ENQUEUED, q |-> BACKFILL_QUEUE,
                             pushed |-> queueLog.pushed,
                             met |-> queueLog.met], 1) IN
       /\ ENQUEUED' = st.enq
       /\ queueLog' = [pushed |-> st.pushed, met |-> st.met]
       /\ LoopHead([bfs EXCEPT !.lastSize = -1], st.q, RPC_INDEX, trail)
  /\ UNCHANGED <<cfgVars, notBFS, SUBSCRIBED, subscribeCalls>>

\* lines 61-66: a page of fetchSigs arrives
SigsOk ==
  /\ bfs.pc = "fetchSigs"
  /\ LET res == getSignaturesForAddress(bfs.addr, bfs.before, SIGS_LIMIT) IN
     IF res = <<>>                                          \* line 62
       THEN ForSigs([bfs EXCEPT !.todo = bfs.sigs], BACKFILL_QUEUE,
                    RPC_INDEX, trail)
       ELSE LET b2 == [bfs EXCEPT !.sigs = bfs.sigs \o res,
                                  !.before = res[Len(res)],
                                  !.page = bfs.page + 1]
            IN IF b2.page > MAX_PAGES                       \* line 66
                 THEN ForSigs([b2 EXCEPT !.todo = b2.sigs], BACKFILL_QUEUE,
                              RPC_INDEX, trail)
                 ELSE /\ bfs' = b2
                      /\ RPC_INDEX' = rpcUrl(RPC_INDEX)
                      /\ UNCHANGED <<BACKFILL_QUEUE, IN_BACKFILL, completions,
                                     trail>>
  /\ UNCHANGED <<cfgVars, notBFS, ENQUEUED, SUBSCRIBED, subscribeCalls,
                 queueLog>>

\* line 62: the node answers without a result (a JSON-RPC error)
SigsNoResult ==
  /\ bfs.pc = "fetchSigs"
  /\ ForSigs([bfs EXCEPT !.todo = bfs.sigs], BACKFILL_QUEUE, RPC_INDEX, trail)
  /\ UNCHANGED <<cfgVars, notBFS, ENQUEUED, SUBSCRIBED, subscribeCalls,
                 queueLog>>

\* lines 67-69: fetch or res.json() throws
SigsThrow ==
  /\ bfs.pc = "fetchSigs"
  /\ bfs' = [bfs EXCEPT !.pc = "sigsSleep"]
  /\ UNCHANGED <<cfgVars, notBFS, RPC_INDEX, BACKFILL_QUEUE, ENQUEUED,
                 SUBSCRIBED, IN_BACKFILL, completions, trail, subscribeCalls,
                 queueLog>>

\* line 69 resumed: sleep(1000) is over, the loop fetches again
SigsSleepDone ==
  /\ bfs.pc = "sigsSleep"
  /\ bfs' = [bfs EXCEPT !.pc = "fetchSigs"]
  /\ RPC_INDEX' = rpcUrl(RPC_INDEX)
  /\ UNCHANGED <<cfgVars, notBFS, BACKFILL_QUEUE, ENQUEUED, SUBSCRIBED,
                 IN_BACKFILL, completions, trail, subscribeCalls, queueLog>>

\* lines 100-102 and 142-159: fetchTx returns the transaction
FetchTxOk ==
  /\ bfs.pc = "fetchTx"
  /\ \E meta \in BOOLEAN :
       LET sig == Head(bfs.todo)
           st0 == [enq |-> ENQUEUED, q |-> BACKFILL_QUEUE,
                   pushed |-> queueLog.pushed, met |-> queueLog.met]
           st  == IF meta                                   \* line 146
                    THEN parseTx(st0, AccountKeys(sig), PostBalances(sig), 1)
                    ELSE st0
       IN /\ ENQUEUED' = st.enq
          /\ queueLog' = [pushed |-> st.pushed, met |-> st.met]
          /\ ForSigs([bfs EXCEPT !.todo = Tail(bfs.todo)], st.q, RPC_INDEX,
                     trail)
  /\ UNCHANGED <<cfgVars, notBFS, SUBSCRIBED, subscribeCalls>>

\* lines 89-93 and 101: fetchTx returns null
FetchTxNull ==
  /\ bfs.pc = "fetchTx"
  /\ ForSigs([bfs EXCEPT !.todo = Tail(bfs.todo)], BACKFILL_QUEUE, RPC_INDEX,
             trail)
  /\ UNCHANGED <<cfgVars, notBFS, ENQUEUED, SUBSCRIBED, subscribeCalls,
                 queueLog>>

\* line 133 resumed: the settle window is over
SettleDone ==
  /\ bfs.pc = "settle"
  /\ LoopHead(bfs, BACKFILL_QUEUE, RPC_INDEX, Append(trail, "wait"))
  /\ UNCHANGED <<cfgVars, notBFS, ENQUEUED, SUBSCRIBED, subscribeCalls,
                 queueLog>>

\* lines 175-180: backfillBFS has returned, the seeds are subscribed
MainSubscribe ==
  /\ bfs.pc = "returned"
  /\ LET st == subscribeSeeds([SUBSCRIBED |-> SUBSCRIBED,
                               calls |-> subscribeCalls], 1) IN
       /\ SUBSCRIBED' = st.SUBSCRIBED
       /\ subscribeCalls' = st.calls
  /\ bfs' = [bfs EXCEPT !.pc = "done"]
  /\ UNCHANGED <<cfgVars, notBFS, RPC_INDEX, BACKFILL_QUEUE, ENQUEUED,
                 IN_BACKFILL, completions, trail, queueLog>>

BfsSeedChoices == {<<>>, <<"A">>, <<"A", "B">>, <<"C", "C">>}
RpcChoices == {<<"rpc1">>, <<"rpc1", "rpc2">>}

InitBFS ==
  /\ landed = <<>>
  /\ SEEDS \in BfsSeedChoices
  /\ RPCS \in RpcChoices
  /\ MAX_DEPTH \in {1, 6} /\ TOP_CHILDREN = 3               \* lines 19-20
  /\ MAX_RETRIES = 5 /\ RETRY_BASE_MS = 500
  /\ CEX = {} /\ PAGE_SIZE = 25 /\ BACKFILL_LIMIT = 0 /\ LOOKBACK_MIN = 60
  /\ RPC_INDEX = 0 /\ BACKFILL_QUEUE = <<>> /\ ENQUEUED = {}
  /\ SUBSCRIBED = {} /\ IN_BACKFILL = TRUE
  /\ bfs = [IdleBfsMain EXCEPT !.pc = "main"]
  /\ completions = 0 /\ trail = <<>> /\ subscribeCalls = NoFn
  /\ queueLog = NoQueueLog
  /\ IdleRetry
  /\ IdleTop
  /\ IdleCrawl

NextBFS ==
  \/ BfsStart \/ SigsOk \/ SigsNoResult \/ SigsThrow \/ SigsSleepDone
  \/ FetchTxOk \/ FetchTxNull \/ SettleDone \/ MainSubscribe

SpecBFS == InitBFS /\ [][NextBFS]_vars

(***************************************************************************)
(* Claims on backfillBFS and the subscriptions of part_000                 *)
(***************************************************************************)
SettleCycle == <<"empty", "wait", "empty">>

C3_Inv ==
  /\ completions <= 1
  /\ IN_BACKFILL <=> completions = 0
  /\ completions = 1 => /\ trail = SettleCycle
                        /\ BACKFILL_QUEUE = <<>>
                        /\ bfs.pc \in {"returned", "done"}
  /\ bfs.pc = "settle" => BACKFILL_QUEUE = <<>> /\ trail = <<"empty">>

C3_Step ==
  completions' # completions =>
    /\ bfs.pc = "settle" /\ BACKFILL_QUEUE = <<>>
    /\ completions' = 1 /\ IN_BACKFILL /\ ~IN_BACKFILL'

C8_AllRegisteredSubscribed ==
  bfs.pc = "done" =>
    \A a \in ENQUEUED :
      a \in SUBSCRIBED /\ a \in DOMAIN subscribeCalls /\ subscribeCalls[a] = 1


(***************************************************************************)
(* The look-back variant (src/unnamed/part_001)                            *)
(***************************************************************************)
NOW_SEC       == 60000   \* line 29: nowSec() when boot runs
LB_PAGE_LIMIT == 100     \* line 117: limit of getSignaturesForAddress

\* s.blockTime of the ledger's transactions, in seconds
BlockTime(sig) ==
  CASE sig = "s0" -> 54000
    [] sig = "s1" -> 57000
    [] sig = "s2" -> 58200
    [] sig = "s3" -> 59400
    [] sig = "s6" -> 55000
    [] OTHER      -> 60000

\* line 112
cutoff == NOW_SEC - LOOKBACK_MIN * 60

\* line 124: sigs.filter(s => (s.blockTime ?? 0) >= cutoff)
RECURSIVE freshOf(_)
freshOf(sigs) ==
  IF sigs = <<>> THEN <<>>
  ELSE IF BlockTime(Head(sigs)) >= cutoff
         THEN <<Head(sigs)>> \o freshOf(Tail(sigs))
         ELSE freshOf(Tail(sigs))

\* lines 37-43: addAddress(addr, depth) of part_001, on reg = [WATCH, subCount]
lbAddAddress(reg, addr, depth) ==
  IF addr = None \/ addr \in DOMAIN reg.WATCH \/ depth > MAX_DEPTH  \* line 38
    THEN reg
  ELSE IF ~validKey(addr) THEN reg                                  \* line 39
  ELSE [WATCH |-> Put(reg.WATCH, addr, depth),                      \* 40-41
        subCount |-> Bump(reg.subCount, addr)]

\* line 145: for (const a of SEEDS) addAddress(a, 0)
RECURSIVE lbAddSeeds(_, _)
lbAddSeeds(reg, i) ==
  IF i > Len(SEEDS) THEN reg
  ELSE lbAddSeeds(lbAddAddress(reg, SEEDS[i], 0), i + 1)

\* lines 101-106: addAddress(to, nextDepth) for each call of `out`
RECURSIVE lbApplyCalls(_, _, _)
lbApplyCalls(reg, out, i) ==
  IF i > Len(out) THEN reg
  ELSE lbApplyCalls(lbAddAddress(reg, out[i].to, out[i].depth), out, i + 1)

IdleLb == [pc |-> "idle", seedIdx |-> 0, before |-> None, batch |-> <<>>,
           last |-> FALSE, sig |-> None, depth |-> 0]

\* lines 148-153 and 110-117: the backfill of seed i starts
RECURSIVE lbStartSeed(_)
lbStartSeed(i) ==
  IF i > Len(SEEDS) THEN [IdleLb EXCEPT !.pc = "live", !.seedIdx = i]
  ELSE IF ~validKey(SEEDS[i]) THEN lbStartSeed(i + 1)       \* line 111 throws
  ELSE [IdleLb EXCEPT !.pc = "page", !.seedIdx = i]

\* WATCH.get(addr)?.depth ?? 0 (line 129)
lbDepthOf(watch, addr) == IF addr \in DOMAIN watch THEN watch[addr] ELSE 0

\* lines 127-133: `for (const s of fresh.reverse())` up to its next await;
\* b.batch holds what is left of fresh.reverse()
RECURSIVE lbForLoop(_, _, _)
lbForLoop(b, seen, watch) ==
  IF b.batch = <<>>
    THEN IF b.last                                              \* line 133
           THEN [boot |-> lbStartSeed(b.seedIdx + 1), enter |-> None]
           ELSE [boot |-> [b EXCEPT !.pc = "page"], enter |-> None]
  ELSE IF seenHas(seen, Head(b.batch))                          \* line 128
    THEN lbForLoop([b EXCEPT !.batch = Tail(b.batch)], seen, watch)
  ELSE [boot |-> [b EXCEPT !.pc = "tx", !.sig = Head(b.batch),
                           !.batch = Tail(b.batch),
                           !.depth = lbDepthOf(watch, SEEDS[b.seedIdx])],
        enter |-> Head(b.batch)]

\* lines 143-149: the seeds are subscribed, then the first backfill starts
LbBoot ==
  /\ boot.pc = "boot"
  /\ LET reg == lbAddSeeds([WATCH |-> WATCH, subCount |-> subCount], 1) IN
       WATCH' = reg.WATCH /\ subCount' = reg.subCount
  /\ boot' = lbStartSeed(1)
  /\ observed' = observed \cup
       {<<SEEDS[i], 0>> : i \in {j \in 1..Len(SEEDS) : 0 <= MAX_DEPTH}}
  /\ UNCHANGED <<cfgVars, notCrawl, DEPTH, SEEN, notifs, handlers, entered,
                 expanded, warned, liveFound, via, dropped>>

\* lines 117-133: a page of signatures arrives
LbPageOk ==
  /\ boot.pc = "page"
  /\ LET sigs == getSignaturesForAddress(SEEDS[boot.seedIdx], boot.before,
                                         LB_PAGE_LIMIT)
     IN IF sigs = <<>>                                          \* line 118
          THEN Enter([boot |-> lbStartSeed(boot.seedIdx + 1), enter |-> None])
          ELSE LET oldest == sigs[Len(sigs)] IN
               Enter(lbForLoop([boot EXCEPT
                                  !.before = oldest,
                                  !.batch = Reverse(freshOf(sigs)),
                                  !.last = BlockTime(oldest) < cutoff],
                               SEEN, WATCH))
  /\ UNCHANGED <<cfgVars, notCrawl, WATCH, DEPTH, subCount, notifs, handlers,
                 expanded, warned, liveFound, dropped, observed>>

\* lines 117 and 149-150: getSignaturesForAddress rejects, the seed is left
LbPageFail ==
  /\ boot.pc = "page"
  /\ boot' = lbStartSeed(boot.seedIdx + 1)
  /\ UNCHANGED <<cfgVars, notCrawl, regVars, notifs, handlers, logVars>>

\* lines 56-106 within backfillAddress: the transaction arrives
LbTxOk ==
  /\ boot.pc = "tx"
  /\ \E present \in BOOLEAN :
       LET out == classify(SEEDS[boot.seedIdx], boot.depth,
                           TxOf(boot.sig).instrs)
           reg == IF present                                    \* line 57
                    THEN lbApplyCalls([WATCH |-> WATCH,
                                       subCount |-> subCount], out.calls, 1)
                    ELSE [WATCH |-> WATCH, subCount |-> subCount]
       IN /\ WATCH' = reg.WATCH /\ subCount' = reg.subCount
          /\ expanded' = IF present THEN Bump(expanded, boot.sig) ELSE expanded
          /\ warned' = IF present THEN warned \cup Range(out.warned)
                       ELSE warned
          /\ observed' = IF present THEN observed \cup observedOf(out.calls)
                         ELSE observed
          /\ Enter(lbForLoop([boot EXCEPT !.sig = None, !.depth = 0],
                             SEEN, reg.WATCH))
  /\ UNCHANGED <<cfgVars, notCrawl, DEPTH, notifs, handlers, liveFound,
                 dropped>>

\* lines 56, 129 and 149-150: getParsedTransaction rejects; the rejection
\* leaves handleSignature and backfillAddress and ends this seed's backfill
LbTxFail ==
  /\ boot.pc = "tx"
  /\ boot' = lbStartSeed(boot.seedIdx + 1)
  /\ UNCHANGED <<cfgVars, notCrawl, regVars, notifs, handlers, logVars>>

\* lines 45-54: a subscription delivers a log notification
LbNotify ==
  /\ notifs < MaxNotifs
  /\ \E addr \in DOMAIN WATCH : \E sig \in Sigs :
       /\ addr \in Mentions(sig)
       /\ IF seenHas(SEEN, sig)                                 \* line 48
            THEN /\ dropped' = dropped \cup {<<addr, sig>>}
                 /\ UNCHANGED <<SEEN, handlers, entered, via>>
            ELSE /\ SEEN' = SEEN \cup {sig}                     \* line 54
                 /\ entered' = Bump(entered, sig)
                 /\ via' = AddTo(via, sig, "live")
                 /\ dropped' = dropped
                 /\ handlers' = handlers \cup
                      {[addr |-> addr, depth |-> WATCH[addr], sig |-> sig]}
  /\ notifs' = notifs + 1
  /\ UNCHANGED <<cfgVars, notCrawl, WATCH, DEPTH, subCount, boot,
                 expanded, warned, liveFound, observed>>

\* lines 56-106 in a live activation
LbHandlerTxOk ==
  \E h \in handlers :
    /\ \E present \in BOOLEAN :
         LET out == classify(h.addr, h.depth, TxOf(h.sig).instrs)
             reg == lbApplyCalls([WATCH |-> WATCH, subCount |-> subCount],
                                 out.calls, 1)
         IN IF present
              THEN /\ WATCH' = reg.WATCH /\ subCount' = reg.subCount
                   /\ expanded' = Bump(expanded, h.sig)
                   /\ warned' = warned \cup Range(out.warned)
                   /\ liveFound' = liveFound \cup
                                     {out.calls[i].to : i \in 1..Len(out.calls)}
                   /\ observed' = observed \cup observedOf(out.calls)
              ELSE UNCHANGED <<WATCH, subCount, expanded, warned, liveFound,
                               observed>>
    /\ handlers' = handlers \ {h}
    /\ UNCHANGED <<cfgVars, notCrawl, DEPTH, SEEN, notifs, boot, entered, via,
                   dropped>>

\* lines 56 and 50: getParsedTransaction rejects in a live activation
LbHandlerTxFail ==
  \E h \in handlers :
    /\ handlers' = handlers \ {h}
    /\ UNCHANGED <<cfgVars, notCrawl, regVars, notifs, boot, logVars>>

LookbackChoices == {60, 20}

InitLookback ==
  /\ landed = <<>>
  /\ SEEDS \in SeedChoices
  /\ MAX_DEPTH \in {1, 2}
  /\ TOP_CHILDREN \in {1, 2}
  /\ CEX = {"K"}
  /\ LOOKBACK_MIN \in LookbackChoices
  /\ MAX_RETRIES = 5 /\ RETRY_BASE_MS = 500
  /\ PAGE_SIZE = 25 /\ BACKFILL_LIMIT = 0 /\ RPCS = <<>>
  /\ WATCH = NoFn /\ DEPTH = NoFn /\ SEEN = {} /\ subCount = NoFn
  /\ notifs = 0
  /\ boot = [IdleLb EXCEPT !.pc = "boot"]
  /\ handlers = {}
  /\ entered = NoFn /\ expanded = NoFn /\ warned = {} /\ liveFound = {}
  /\ via = NoFn /\ dropped = {} /\ observed = {}
  /\ IdleRetry
  /\ IdleTop
  /\ IdleBFS

NextLookback ==
  \/ LbBoot \/ LbPageOk \/ LbPageFail \/ LbTxOk \/ LbTxFail
  \/ LbNotify \/ LbHandlerTxOk \/ LbHandlerTxFail

SpecLookback == InitLookback /\ [][NextLookback]_vars

(***************************************************************************)
(* Claims on the phases                                                    *)
(***************************************************************************)
Backfilling == boot.pc # "live"

\* C9: while the backfill of the seeds has not returned, no subscription is
\* open (WATCH is empty), no onLogs activation is running and no signature
\* has been handed to handleSignature by onLogs.
C9_NothingLiveWhileBackfilling ==
  Backfilling =>
    /\ WATCH = NoFn
    /\ handlers = {}
    /\ \A s \in DOMAIN via : "live" \notin via[s]

(***************************************************************************)
(* Claims on the backfill of index.js                                      *)
(***************************************************************************)
\* lines 233-234: the addresses backfillAllFrom has been called with so far
\* (its only call site is the loop over SEEDS)
backfillCalled ==
  IF boot.pc = "boot" THEN {}
  ELSE IF boot.pc \in {"transition", "live"} THEN Range(SEEDS)
  ELSE {SEEDS[j] : j \in 1..boot.seedIdx}

\* C11: when the phase is live, every address that classification registered
\* (every address of DEPTH) has had a backfill of its own started for it.
C11_RegisteredAreBackfilled ==
  Live => \A a \in DOMAIN DEPTH : a \in backfillCalled

\* position on the ledger: a larger index is an older transaction
Older(t, s) == IndexOf(Chain, t) > IndexOf(Chain, s)

\* the backfill hands boot'.sig to handleSignature in this step (line 198)
BackfillHands == boot.pc # "tx" /\ boot'.pc = "tx"

C12_Step ==
  BackfillHands =>
    \A t \in Range(History(SEEDS[boot'.seedIdx])) :
      Older(t, boot'.sig) => t \in SEEN

\* C12: whenever the backfill of an address hands a signature to
\* handleSignature, every older signature of that address's history has
\* been handed over before (oldest-to-newest over the whole history).
C12_OldestFirst == [][C12_Step]_vars

(***************************************************************************)
(* The second copy of the program in src/index.js (lines 244-416): no      *)
(* withRetry, no pauses, pages of 100, and no try/catch round              *)
(* handleSignature in backfillAllFrom.                                     *)
(***************************************************************************)
V2_PAGE_LIMIT == 100     \* line 379

\* lines 405-407 and 372-379: the backfill of seed i starts
RECURSIVE v2StartSeed(_)
v2StartSeed(i) ==
  IF i > Len(SEEDS)
    THEN [IdleMain EXCEPT !.pc = "transition", !.seedIdx = i]
  ELSE IF ~validKey(SEEDS[i]) THEN v2StartSeed(i + 1)       \* line 373 throws
  ELSE [IdleMain EXCEPT !.pc = "page", !.seedIdx = i]

\* DEPTH.get(addr) ?? 0 (line 387)
v2DepthOf(depthMap, addr) ==
  IF addr \in DOMAIN depthMap THEN depthMap[addr] ELSE 0

\* lines 384-391: `for (const s of sigs.reverse())` up to its next await;
\* b.batch holds s and what follows it
RECURSIVE v2ForLoop(_, _, _)
v2ForLoop(b, seen, depthMap) ==
  IF b.batch = <<>>
    THEN IF BACKFILL_LIMIT # 0 /\ b.count >= BACKFILL_LIMIT      \* line 391
           THEN [boot |-> v2StartSeed(b.seedIdx + 1), enter |-> None]
           ELSE [boot |-> [b EXCEPT !.pc = "page"], enter |-> None]
  ELSE IF BACKFILL_LIMIT # 0 /\ b.count >= BACKFILL_LIMIT        \* line 385
    THEN [boot |-> v2StartSeed(b.seedIdx + 1), enter |-> None]
  ELSE IF seenHas(seen, Head(b.batch))                           \* line 386
    THEN v2ForLoop([b EXCEPT !.batch = Tail(b.batch)], seen, depthMap)
  ELSE [boot |-> [b EXCEPT !.pc = "tx", !.sig = Head(b.batch),
                           !.handed = b.handed + 1,
                           !.depth = v2DepthOf(depthMap, SEEDS[b.seedIdx])],
        enter |-> Head(b.batch)]

\* lines 402-406: the seeds are registered, the first backfill starts
V2Boot ==
  /\ boot.pc = "boot"
  /\ SetReg(addSeeds(Reg, 1))
  /\ boot' = v2StartSeed(1)
  /\ observed' = observed \cup
       {<<SEEDS[i], 0>> : i \in {j \in 1..Len(SEEDS) : 0 <= MAX_DEPTH}}
  /\ UNCHANGED <<cfgVars, notCrawl, SEEN, notifs, handlers, entered,
                 expanded, warned, liveFound, via, dropped>>

\* lines 379-384: a page of signatures arrives
V2PageOk ==
  /\ boot.pc = "page"
  /\ LET sigs == getSignaturesForAddress(SEEDS[boot.seedIdx], boot.before,
                                         V2_PAGE_LIMIT)
     IN IF sigs = <<>>                                           \* line 380
          THEN Enter([boot |-> v2StartSeed(boot.seedIdx + 1), enter |-> None])
          ELSE Enter(v2ForLoop([boot EXCEPT !.before = sigs[Len(sigs)],
                                            !.batch = Reverse(sigs)],
                               SEEN, DEPTH))
  /\ UNCHANGED <<cfgVars, notCrawl, WATCH, DEPTH, subCount, notifs, handlers,
                 expanded, warned, liveFound, dropped, observed>>

\* lines 379 and 406-407: getSignaturesForAddress rejects, the rejection
\* leaves backfillAllFrom and is caught by boot
V2PageFail ==
  /\ boot.pc = "page"
  /\ boot' = v2StartSeed(boot.seedIdx + 1)
  /\ UNCHANGED <<cfgVars, notCrawl, regVars, notifs, handlers, logVars>>

\* lines 387-388 and 313-369: handleSignature returns, count++, and the
\* loop goes on
V2TxOk ==
  /\ boot.pc = "tx"
  /\ \E present \in BOOLEAN :
       LET out == classify(SEEDS[boot.seedIdx], boot.depth,
                           TxOf(boot.sig).instrs)
           reg == IF present THEN applyCalls(Reg, out.calls, 1) ELSE Reg
       IN /\ SetReg(reg)
          /\ expanded' = IF present THEN Bump(expanded, boot.sig) ELSE expanded
          /\ warned' = IF present THEN warned \cup Range(out.warned)
                       ELSE warned
          /\ observed' = IF present THEN observed \cup observedOf(out.calls)
                         ELSE observed
          /\ Enter(v2ForLoop([boot EXCEPT !.batch = Tail(boot.batch),
                                          !.count = boot.count + 1,
                                          !.sig = None, !.depth = 0],
                             SEEN, reg.DEPTH))
  /\ UNCHANGED <<cfgVars, notCrawl, notifs, handlers, liveFound, dropped>>

\* lines 316, 387 and 406-407: getParsedTransaction rejects; nothing in
\* backfillAllFrom catches it, so this seed's backfill ends
V2TxFail ==
  /\ boot.pc = "tx"
  /\ boot' = v2StartSeed(boot.seedIdx + 1)
  /\ UNCHANGED <<cfgVars, notCrawl, regVars, notifs, handlers, logVars>>

\* lines 411-414: every known address is subscribed
V2Transition ==
  /\ boot.pc = "transition"
  /\ SetReg(subscribeAll(Reg, DOMAIN DEPTH))
  /\ boot' = [IdleMain EXCEPT !.pc = "live"]
  /\ observed' = observed \cup {<<a, DEPTH[a]>> : a \in DOMAIN DEPTH}
  /\ UNCHANGED <<cfgVars, notCrawl, SEEN, notifs, handlers, entered,
                 expanded, warned, liveFound, via, dropped>>

\* lines 305-314: a subscription delivers a log notification
V2Notify ==
  /\ notifs < MaxNotifs
  /\ \E addr \in DOMAIN subCount : \E sig \in Sigs :
       /\ addr \in Mentions(sig)
       /\ IF seenHas(SEEN, sig)                                  \* line 308
            THEN /\ dropped' = dropped \cup {<<addr, sig>>}
                 /\ UNCHANGED <<SEEN, handlers, entered, via>>
            ELSE /\ SEEN' = SEEN \cup {sig}                      \* line 314
                 /\ entered' = Bump(entered, sig)
                 /\ via' = AddTo(via, sig, "live")
                 /\ dropped' = dropped
                 /\ handlers' = handlers \cup
                      {[addr |-> addr, depth |-> depthOf(addr), sig |-> sig,
                        rw |-> IdleMain.rw]}
  /\ notifs' = notifs + 1
  /\ UNCHANGED <<cfgVars, notCrawl, WATCH, DEPTH, subCount, boot,
                 expanded, warned, liveFound, observed>>

\* lines 316-368 in a live activation
V2HandlerTxOk ==
  \E h \in handlers :
    /\ \E present \in BOOLEAN :
         LET out == classify(h.addr, h.depth, TxOf(h.sig).instrs) IN
         IF present
           THEN /\ SetReg(applyCalls(Reg, out.calls, 1))
                /\ expanded' = Bump(expanded, h.sig)
                /\ warned' = warned \cup Range(out.warned)
                /\ observed' = observed \cup observedOf(out.calls)
                /\ liveFound' = liveFound \cup
                                  {out.calls[i].to : i \in 1..Len(out.calls)}
           ELSE UNCHANGED <<WATCH, DEPTH, subCount, expanded, warned,
                            liveFound, observed>>
    /\ handlers' = handlers \ {h}
    /\ UNCHANGED <<cfgVars, notCrawl, SEEN, notifs, boot, entered, via, dropped>>

\* lines 316 and 310: getParsedTransaction rejects in a live activation
V2HandlerTxFail ==
  \E h \in handlers :
    /\ handlers' = handlers \ {h}
    /\ UNCHANGED <<cfgVars, notCrawl, regVars, notifs, boot, logVars>>

InitV2 ==
  /\ landed = <<>>
  /\ SEEDS \in SeedChoices
  /\ MAX_DEPTH \in {1, 2}
  /\ TOP_CHILDREN \in {1, 2}
  /\ MAX_RETRIES = 3 /\ RETRY_BASE_MS = 500
  /\ CEX = {"K"}
  /\ PAGE_SIZE = 25
  /\ BACKFILL_LIMIT \in {0, 2}
  /\ WATCH = NoFn /\ DEPTH = NoFn /\ SEEN = {} /\ subCount = NoFn
  /\ notifs = 0
  /\ boot = [IdleMain EXCEPT !.pc = "boot"]
  /\ handlers = {}
  /\ entered = NoFn /\ expanded = NoFn /\ warned = {} /\ liveFound = {}
  /\ via = NoFn /\ dropped = {} /\ observed = {}
  /\ DefaultOtherCfg
  /\ IdleRetry
  /\ IdleTop
  /\ IdleBFS

NextV2 ==
  \/ V2Boot \/ V2PageOk \/ V2PageFail \/ V2TxOk \/ V2TxFail \/ V2Transition
  \/ V2Notify \/ V2HandlerTxOk \/ V2HandlerTxFail

SpecV2 == InitV2 /\ [][NextV2]_vars

(***************************************************************************)
(* Claims on failures during backfill                                      *)
(***************************************************************************)
\* the signatures of the fetched page that follow the one in hand and have
\* not been handed to handleSignature yet
RemainingUnseen ==
  IF boot.batch = <<>> THEN {} ELSE Range(Tail(boot.batch)) \ SEEN

UnderCap == BACKFILL_LIMIT = 0 \/ boot.count + 1 < BACKFILL_LIMIT

C13_Step ==
  (boot.pc = "tx" /\ RemainingUnseen # {} /\ UnderCap) =>
    /\ boot'.seedIdx = boot.seedIdx
    /\ boot'.pc \notin {"transition", "live"}

\* C13: while handleSignature is awaited for one signature of an address's
\* backfill and later signatures of the fetched page are still to be
\* handled (and the cap is not reached), no step, a failing handleSignature
\* included, makes the backfill leave that address.
C13_FailureKeepsAddress == [][C13_Step]_vars

(***************************************************************************)
(* Claims on the destination of a token transfer                           *)
(***************************************************************************)
\* the ledger's token accounts and the wallet that owns each (line 152:
\* inf.destination of a token transfer is a token account)
TokenAccountOwner(acct) == IF acct = "T" THEN "Y" ELSE None

\* C14: no destination that handleSignature passes to addAddress is the
\* address of a token account that resolves to an owner; the edge is keyed
\* by that owner instead.
C14_KeyedByOwner ==
  cOut.done =>
    \A i \in 1..Len(cOut.calls) : TokenAccountOwner(cOut.calls[i].to) = None

(***************************************************************************)
(* Claims on BACKFILL_QUEUE                                                *)
(***************************************************************************)
\* the entries this step leaves on the queue that were not on it before
NewEntries == Range(BACKFILL_QUEUE') \ Range(BACKFILL_QUEUE)

C15_Step ==
  bfs.pc = "fetchTx" =>
    \A e \in NewEntries : e.depth = bfs.depth + 1 /\ e.depth <= MAX_DEPTH

\* C15: every entry that the backfill of an address pushes onto
\* BACKFILL_QUEUE records the depth of that address's own entry plus one,
\* and that depth is at most MAX_DEPTH.
C15_EnqueueDepthBounded == [][C15_Step]_vars

QueueAddrs == {BACKFILL_QUEUE[i].addr : i \in 1..Len(BACKFILL_QUEUE)}

\* C16: no address is on BACKFILL_QUEUE twice, every queued address is in
\* ENQUEUED, the address being backfilled is not queued again, and every
\* address of ENQUEUED has been pushed exactly once, however often it was
\* met again.
C16_QueuedAtMostOnce ==
  /\ \A i, j \in 1..Len(BACKFILL_QUEUE) :
       BACKFILL_QUEUE[i].addr = BACKFILL_QUEUE[j].addr => i = j
  /\ QueueAddrs \subseteq ENQUEUED
  /\ bfs.addr \notin QueueAddrs
  /\ DOMAIN queueLog.pushed = ENQUEUED
  /\ \A a \in ENQUEUED : queueLog.pushed[a] = 1

\* C16 witness: a seed was met again by parseTx after it had been taken off
\* the queue (a cycle back to the seed), and was pushed once only.
C16_Witness ==
  \E a \in Range(SEEDS) :
    /\ a \in DOMAIN queueLog.met /\ queueLog.met[a] > 1
    /\ queueLog.pushed[a] = 1
    /\ a \notin QueueAddrs
    /\ bfs.addr # a
    /\ Len(SEEDS) = 1

(***************************************************************************)
(* Claims on the rate-limit pause                                          *)
(***************************************************************************)
C17_Step ==
  boot.pc = "sleep429" =>
    \/ boot' = boot
    \/ boot'.pc = "tx" /\ boot'.sig = Head(boot.batch)

\* C17: when the pause that follows a 429 failure of handleSignature is
\* over, the backfill hands the same signature (the head of the batch) to
\* handleSignature again.
C17_RetriedAfterCooldown == [][C17_Step]_vars

(***************************************************************************)
(* Claims on live notifications                                            *)
(***************************************************************************)
\* C18: at most one onLogs activation per watched address is in flight
\* (awaiting handleSignature).
C18_OneInFlightPerAddress ==
  \A h1, h2 \in handlers : h1.addr = h2.addr => h1 = h2

\* the destinations handleSignature would pass on for address a in sig
DestsOf(a, sig) ==
  LET out == classify(a, depthOf(a), TxOf(sig).instrs).calls
  IN {out[i].to : i \in 1..Len(out)}

Settled(sig) ==
  /\ sig \in DOMAIN expanded
  /\ \A h \in handlers : h.sig # sig
  /\ boot.sig # sig

\* C19: when a signature was reported to an address whose onLogs returned
\* because the signature was already seen, and the signature's
\* classification has run, the destinations of that address's own outgoing
\* transfers in the transaction are registered all the same.
C19_EachSourceExpanded ==
  \A p \in dropped :
    Settled(p[2]) => DestsOf(p[1], p[2]) \subseteq DOMAIN DEPTH

(***************************************************************************)
(* index.js with a signature-count cap (BACKFILL_LIMIT > 0)                *)
(***************************************************************************)
LimitChoices == {1, 2}

InitLimit ==
  /\ landed = <<>>
  /\ SEEDS \in SeedChoices
  /\ MAX_DEPTH \in {1, 2}
  /\ TOP_CHILDREN = 2
  /\ MAX_RETRIES = 2 /\ RETRY_BASE_MS = 500
  /\ CEX = {"K"}
  /\ PAGE_SIZE = 2
  /\ BACKFILL_LIMIT \in LimitChoices
  /\ WATCH = NoFn /\ DEPTH = NoFn /\ SEEN = {} /\ subCount = NoFn
  /\ notifs = 0
  /\ boot = [IdleMain EXCEPT !.pc = "boot"]
  /\ handlers = {}
  /\ entered = NoFn /\ expanded = NoFn /\ warned = {} /\ liveFound = {}
  /\ via = NoFn /\ dropped = {} /\ observed = {}
  /\ DefaultOtherCfg
  /\ IdleRetry
  /\ IdleTop
  /\ IdleBFS

SpecLimit == InitLimit /\ [][Next]_vars

\* C20: with BACKFILL_LIMIT = L > 0 the running backfill of an address has
\* passed at most L signatures to handleSignature.
C20_AtMostLimitHanded ==
  BACKFILL_LIMIT > 0 => boot.handed <= BACKFILL_LIMIT

(***************************************************************************)
(* C21: the stored depth is the minimal observed depth.                    *)
(***************************************************************************)
\* the depths (within MAX_DEPTH) with which addAddress was called for `a`
ObservedDepths(a) == {p[2] : p \in {q \in observed : q[1] = a}}
MinObserved(a) ==
  CHOOSE d \in ObservedDepths(a) : \A e \in ObservedDepths(a) : d <= e

\* C21: at every moment the depth stored for an address (in DEPTH, and in
\* the WATCH entry where that is the store), the depth an open live
\* activation of handleSignature passes to the classifier and the depth the
\* backfill passes for its seed equal the smallest depth, within MAX_DEPTH,
\* with which addAddress has met that address so far.
C21_MinimalDepth ==
  /\ \A a \in DOMAIN DEPTH : DEPTH[a] = MinObserved(a)
  /\ \A a \in DOMAIN WATCH : WATCH[a] = MinObserved(a)
  /\ \A h \in handlers : h.depth = MinObserved(h.addr)
  /\ boot.pc = "tx" => boot.depth = MinObserved(SEEDS[boot.seedIdx])

(***************************************************************************)
(* C22: the backfill ends.  The event loop resumes every continuation      *)
(* whose promise or timer has settled, so the program as a whole is        *)
(* weakly fair; whether an RPC call succeeds stays the node's choice.      *)
(***************************************************************************)
SpecBFSFair == InitBFS /\ [][NextBFS]_vars /\ WF_vars(NextBFS)
\* boot of index.js alone: no subscription is open before the transition
\* (lines 232 and 239), so no other handler runs until then
NextBoot ==
  \/ BootStart \/ PageOk \/ PageFail \/ BootRetryWake \/ TxOk \/ TxFail
  \/ Sleep429Done \/ TxDelayDone \/ PageDelayDone \/ Transition
InitFair == Init /\ MAX_DEPTH = 2 /\ TOP_CHILDREN = 2
SpecFair == InitFair /\ [][NextBoot]_vars /\ WF_vars(NextBoot)

\* index.js: boot reaches the live phase whatever calls fail (withRetry
\* gives up after MAX_RETRIES attempts, the failing page or signature is
\* left)
C22_BootReachesLive == <>Live

\* C22: whatever RPC calls fail, the backfill eventually completes and the
\* program leaves the backfill phase (IN_BACKFILL becomes false).
C22_BackfillCompletes == <>(~IN_BACKFILL)

(***************************************************************************)
(* C23: a failed classification is a permanent skip (index.js).            *)
(***************************************************************************)
\* the signatures whose handleSignature activation awaits getParsedTx
InFlight ==
  (IF boot.pc = "tx" THEN {boot.sig} ELSE {}) \cup {h.sig : h \in handlers}
\* the signatures whose activation ended at line 118 (throw) or 119 (no
\* transaction): entered, no longer awaited, never expanded
Failed == {s \in SEEN : s \notin InFlight /\ s \notin DOMAIN expanded}

\* C23: a signature is in SEEN while its transaction is fetched, and SEEN
\* never loses a signature; once handleSignature failed for a signature
\* (the fetch threw after its retries, or no transaction came back), no
\* backfill step and no live notification enters handleSignature for it
\* again and it is never expanded; the failing step changes neither DEPTH
\* nor WATCH.
C23_Inv == InFlight \subseteq SEEN
C23_Step ==
  /\ SEEN \subseteq SEEN'
  /\ \A s \in Failed : /\ s \notin InFlight'
                       /\ s \notin DOMAIN expanded'
                       /\ entered'[s] = entered[s]
  /\ Failed' \ Failed # {} => DEPTH' = DEPTH /\ WATCH' = WATCH
C23_FailedIsSkipped == []C23_Inv /\ [][C23_Step]_vars

\* C23 witness: in the live phase a notification delivered a signature
\* whose classification had failed, and onLogs returned on it.
C23_Witness ==
  /\ Live
  /\ \E p \in dropped : p[2] \in Failed

(***************************************************************************)
(* SpecLand: index.js with an RPC node that answers every call, while      *)
(* transactions keep landing on the ledger during the backfill.            *)
(* Transactions that land in the live phase reach the program as           *)
(* notifications (Notify).                                                 *)
(***************************************************************************)
MaxLanded == 1          \* transactions that land during the backfill

\* a transaction that mentions some address lands on the ledger: from now
\* on getSignaturesForAddress lists it first (index.js:77)
Land ==
  /\ boot.pc # "live"
  /\ Len(landed) < MaxLanded
  /\ \E sig \in Sigs \ (Range(Chain) \cup Range(landed)) :
       landed' = <<sig>> \o landed
  /\ UNCHANGED <<cfgVars, retryVars, topVars, crawlVars, bfsVars>>

NextLand ==
  \/ BootStart \/ PageOk \/ TxOk \/ TxDelayDone \/ PageDelayDone
  \/ Transition \/ Land \/ Notify \/ HandlerTxOk

SpecLand == Init /\ [][NextLand]_vars

\* C24: when the live phase begins and no classification has failed, every
\* signature that is on the ledger and mentions a (well-formed) seed has
\* been handed to handleSignature: it is in SEEN.
C24_NoSeedTxLost ==
  (Live /\ Failed = {}) =>
     \A i \in 1..Len(SEEDS) :
        validKey(SEEDS[i]) => Range(History(SEEDS[i])) \subseteq SEEN

====
